---- MODULE Spec2Model ----
(***************************************************************************)
(* NanoClient (src/coins/nano/client.rs): the unscripted-leg controller of *)
(* the atomic swap.  The controller's fields are the state; every trait    *)
(* method of UnscriptedClient is one action, the two async methods one     *)
(* action per stretch of code between awaits.  The verifier, the crypto    *)
(* engine and the ledger engine are external: what they return is drawn    *)
(* from small sets, and the calls made to them are logged.                 *)
(***************************************************************************)
EXTENDS Integers, Sequences, FiniteSets, TLC

\* ---------------------------------------------------------------- bounds
\* Order of the (additive, cyclic) group standing for Ed25519.
Order == 3
\* Block hashes and amounts the ledger can report.
MaxHash == 2
MaxAmount == 2
\* Longest list of receivables one poll returns.
MaxPending == 2

\* ---------------------------------------------------------------- values
\* Option<T>: None is the empty sequence, Some(x) a one-element sequence.
None == << >>
Some(x) == << x >>
IsNone(o) == o = << >>
IsSome(o) == o # << >>
Unwrap(o) == o[1]

Scalars == 0 .. (Order - 1)
Points == 0 .. (Order - 1)
Hashes == 1 .. MaxHash
Amounts == 1 .. MaxAmount

\* Ed25519Blake2b::to_public_key: s times the base point, the base point
\* being the generator Order - 1 of the group.
ToPublicKey(s) == (s * (Order - 1)) % Order
\* PublicKey + PublicKey
PointAdd(p, q) == (p + q) % Order
\* Account(bytes): the account of a compressed point.
Account(p) == << "Account", p >>
\* Account(..).to_string(): the nano_ address of an account.
AccountToString(a) == << "nano_", a[2] >>
\* Account(shared_key.compress().to_bytes()).to_string()
AddressOf(p) == AccountToString(Account(p))

\* The receivables (BlockHash, u128) a poll can report.
Receivables == Hashes \X Amounts
RECURSIVE SeqsUpTo(_, _)
SeqsUpTo(S, n) ==
  IF n = 0 THEN { << >> }
  ELSE LET shorter == SeqsUpTo(S, n - 1)
       IN  shorter \cup { Append(s, x) : s \in { t \in shorter : Len(t) = n - 1 }, x \in S }
\* The lists of pending blocks a poll can report: no block hash twice.
PendingLists ==
  { s \in SeqsUpTo(Receivables, MaxPending) :
      \A i, j \in 1 .. Len(s) : i # j => s[i][1] # s[j][1] }
\* NanoEngine::get_confirmed_pending: Err, or Ok(list of receivables).
PollResults ==
  { [ok |-> FALSE, inputs |-> << >>] }
    \cup { [ok |-> TRUE, inputs |-> s] : s \in PendingLists }

\* The list left whole: the truncate call missing.
TruncateNothing(s, n) == s
\* The list emptied: truncate(0).
TruncateAll(s, n) == << >>
\* Vec::truncate(n)
Truncate(s, n) == IF Len(s) > n THEN SubSeq(s, 1, n) ELSE s
\* Vec::pop(): the last element, if any.
Pop(s) == IF Len(s) = 0 THEN None ELSE Some(s[Len(s)])

\* Digits of a recovered key as the verifier hands it over, little-endian.
ByteBase == 2
RecoveredBytes == { << lo, hi >> : lo \in 0 .. (ByteBase - 1), hi \in 0 .. (ByteBase - 1) }
LittleEndianValue(b) == b[1] + ByteBase * b[2]
\* Ed25519Blake2b::little_endian_bytes_to_private_key: Err on a
\* non-canonical scalar, else the scalar.
LittleEndianBytesToPrivateKey(b) ==
  IF LittleEndianValue(b) < Order THEN Some(LittleEndianValue(b)) ELSE None
\* ScriptedVerifier::claim_refund_or_recover_key:
\* Err, Ok(None) or Ok(Some(bytes)).
ResolveResults ==
  { [ok |-> FALSE, key |-> None], [ok |-> TRUE, key |-> None] }
    \cup { [ok |-> TRUE, key |-> Some(b)] : b \in RecoveredBytes }

\* ----------------------------------------------------------------- state
VARIABLES
  key_share,     \* Option<PrivateKey>
  shared_key,    \* Option<PublicKey>
  address,       \* Option<String>
  input,         \* Option<(BlockHash, u128)>
  refund,        \* Account, set by new(); only test builds assign it again
  pc,            \* "idle"; "waiting" (inside wait_for_deposit's loop); moved into
                 \* refund: "refund" (future not yet polled), "resolving" and
                 \* "sending" (suspended at an await), "consumed" (over); in
                 \* test builds also "send_from_node", "get_if_funded", "checking"
  wait_address,  \* the local `address` of a running wait_for_deposit (in test
                 \* builds also of a running get_if_funded)
  last,          \* the last call: its name, its outcome, what it returned
  calls,         \* the verifier's resolution and the engine's send calls, in order;
                 \* ret is None while the call is in flight
  accepted_key,  \* the remote public key of the last bundle the verifier accepted
  funded_address \* the address whose poll reported the held input

fields == << key_share, shared_key, address, input, refund >>
vars == << key_share, shared_key, address, input, refund, pc, wait_address,
           last, calls, accepted_key, funded_address >>

\* The refund accounts a configuration can name.
RefundAccounts == { Account(p) : p \in { 0, Order - 1 } }

\* The outcome of a call: Ok, a recoverable Err, or a panic.  Every panic
\* of the controller happens before the call assigns a field, so it leaves
\* the fields as they were; a caller that catches the unwind can go on
\* using the controller (but for refund, which owns it).  A running
\* wait_for_deposit is "pending" until its first poll and "polling" after a
\* poll that found nothing; a refund is "pending" until it returns, and
\* "dropped" when its future was dropped before that.  `valid` is the
\* verifier's verdict on the bundle of a verify_keys call, `ret` what the
\* call returned with its outcome (the address of a get_address call).
Outcome(op, result, valid, ret) ==
  [op |-> op, result |-> result, valid |-> valid, ret |-> ret]

\* NanoClient::new
Init ==
  /\ key_share = None
  /\ shared_key = None
  /\ address = None
  /\ input = None
  /\ refund \in RefundAccounts
  /\ pc = "idle"
  /\ wait_address = None
  /\ last = Outcome("new", "Ok", TRUE, None)
  /\ calls = << >>
  /\ accepted_key = None
  /\ funded_address = None

\* The log entry of a call to the verifier's resolution step; res is None
\* until the call returns.
ResolveCall(res) ==
  [fn |-> "claim_refund_or_recover_key", args |-> << >>, ret |-> res]
\* The log entry of a call to NanoEngine::send; ok is None until the call
\* returns.
SendCall(recovered, share, hash, destination, amount, ok) ==
  [fn |-> "send", args |-> << recovered, share, hash, destination, amount >>, ret |-> ok]

\* --------------------------------------------------------------- actions
\* generate_keys: stores the share the verifier generated, returns the
\* serialized KeyBundle (which holds verifier data only).
GenerateKeys(key) ==
  /\ pc = "idle"
  /\ key_share' = Some(key)
  /\ last' = Outcome("generate_keys", "Ok", TRUE, None)
  /\ UNCHANGED << shared_key, address, input, refund, pc, wait_address,
                  calls, accepted_key, funded_address >>

\* verify_keys with the verifier's verdict dropped: a rejected bundle counts
\* as the identity point.
VerifyKeysUnchecked(valid, host_key) ==
  /\ pc = "idle"
  /\ IF IsNone(key_share)
       THEN /\ last' = Outcome("verify_keys", "panic", valid, None)
            /\ UNCHANGED << shared_key, accepted_key >>
       ELSE /\ shared_key' = Some(PointAdd(ToPublicKey(Unwrap(key_share)),
                                           IF valid THEN host_key ELSE 0))
            /\ accepted_key' = IF valid THEN Some(host_key) ELSE accepted_key
            /\ last' = Outcome("verify_keys", "Ok", valid, None)
  /\ UNCHANGED << key_share, address, input, refund, pc, wait_address,
                  calls, funded_address >>

\* verify_keys: the verifier checks the proof first (`?`), then the share
\* is unwrapped (`expect`), then the shared key is stored.
VerifyKeys(valid, host_key) ==
  /\ pc = "idle"
  /\ IF ~valid
       THEN /\ last' = Outcome("verify_keys", "Err", FALSE, None)
            /\ UNCHANGED << shared_key, accepted_key >>
       ELSE IF IsNone(key_share)
         THEN /\ last' = Outcome("verify_keys", "panic", TRUE, None)
              /\ UNCHANGED << shared_key, accepted_key >>
         ELSE /\ shared_key' = Some(PointAdd(ToPublicKey(Unwrap(key_share)), host_key))
              /\ accepted_key' = Some(host_key)
              /\ last' = Outcome("verify_keys", "Ok", TRUE, None)
  /\ UNCHANGED << key_share, address, input, refund, pc, wait_address,
                  calls, funded_address >>

\* get_address with a missing shared key defaulted to the identity point.
GetAddressDefaultKey ==
  /\ pc = "idle"
  /\ LET a == AddressOf(IF IsNone(shared_key) THEN 0 ELSE Unwrap(shared_key))
     IN  /\ address' = Some(a)
         /\ last' = Outcome("get_address", "Ok", TRUE, Some(a))
  /\ UNCHANGED << key_share, shared_key, input, refund, pc, wait_address,
                  calls, accepted_key, funded_address >>

\* get_address: unwraps the shared key (`expect`), stores and returns its
\* address.
GetAddress ==
  /\ pc = "idle"
  /\ IF IsNone(shared_key)
       THEN /\ last' = Outcome("get_address", "panic", TRUE, None)
            /\ UNCHANGED address
       ELSE LET a == AddressOf(Unwrap(shared_key))
            IN  /\ address' = Some(a)
                /\ last' = Outcome("get_address", "Ok", TRUE, Some(a))
  /\ UNCHANGED << key_share, shared_key, input, refund, pc, wait_address,
                  calls, accepted_key, funded_address >>

\* wait_for_deposit as a do-while loop: it polls before it looks at the
\* input it holds.
WaitForDepositPollingAgain ==
  /\ pc = "idle"
  /\ IF IsNone(address)
       THEN /\ last' = Outcome("wait_for_deposit", "panic", TRUE, None)
            /\ UNCHANGED << pc, wait_address >>
       ELSE /\ pc' = "waiting"
            /\ wait_address' = address
            /\ last' = Outcome("wait_for_deposit", "pending", TRUE, None)
  /\ UNCHANGED << key_share, shared_key, address, input, refund,
                  calls, accepted_key, funded_address >>

\* wait_for_deposit with a missing address defaulted: it polls the address
\* of the identity point.
WaitForDepositDefaultAddress ==
  /\ pc = "idle"
  /\ IF IsSome(input)
       THEN /\ last' = Outcome("wait_for_deposit", "Ok", TRUE, None)
            /\ UNCHANGED << pc, wait_address >>
       ELSE /\ pc' = "waiting"
            /\ wait_address' = IF IsNone(address) THEN Some(AddressOf(0)) ELSE address
            /\ last' = Outcome("wait_for_deposit", "pending", TRUE, None)
  /\ UNCHANGED << key_share, shared_key, address, input, refund,
                  calls, accepted_key, funded_address >>

\* wait_for_deposit, up to its first suspension: unwraps the address
\* (`expect`); returns at once when an input is already held, else
\* enters the polling loop.
WaitForDeposit ==
  /\ pc = "idle"
  /\ IF IsNone(address)
       THEN /\ last' = Outcome("wait_for_deposit", "panic", TRUE, None)
            /\ UNCHANGED << pc, wait_address >>
       ELSE IF IsSome(input)
         THEN /\ last' = Outcome("wait_for_deposit", "Ok", TRUE, None)
              /\ UNCHANGED << pc, wait_address >>
         ELSE /\ pc' = "waiting"
              /\ wait_address' = address
              /\ last' = Outcome("wait_for_deposit", "pending", TRUE, None)
  /\ UNCHANGED << key_share, shared_key, address, input, refund,
                  calls, accepted_key, funded_address >>

\* A loop iteration that polls again after an error of the ledger engine.
PollBodyRetrying(res) ==
  /\ pc = "waiting"
  /\ LET popped == IF res.ok THEN Pop(Truncate(res.inputs, 1)) ELSE None
     IN  /\ input' = popped
         /\ IF IsSome(popped)
              THEN /\ last' = Outcome("wait_for_deposit", "Ok", TRUE, None)
                   /\ pc' = "idle"
                   /\ wait_address' = None
                   /\ funded_address' = wait_address
              ELSE /\ last' = Outcome("wait_for_deposit", "polling", TRUE, None)
                   /\ UNCHANGED << pc, wait_address, funded_address >>
  /\ UNCHANGED << key_share, shared_key, address, refund, calls, accepted_key >>

\* One iteration of wait_for_deposit's loop: sleep, poll the address
\* (`?`), keep the first receivable; the loop ends when an input is held.
PollBody(res) ==
  /\ pc = "waiting"
  /\ IF ~res.ok
       THEN /\ last' = Outcome("wait_for_deposit", "Err", TRUE, None)
            /\ pc' = "idle"
            /\ wait_address' = None
            /\ UNCHANGED << input, funded_address >>
       ELSE LET popped == Pop(Truncate(res.inputs, 1))
            IN  /\ input' = popped
                /\ IF IsSome(popped)
                     THEN /\ last' = Outcome("wait_for_deposit", "Ok", TRUE, None)
                          /\ pc' = "idle"
                          /\ wait_address' = None
                          /\ funded_address' = wait_address
                     ELSE /\ last' = Outcome("wait_for_deposit", "polling", TRUE, None)
                          /\ UNCHANGED << pc, wait_address, funded_address >>
  /\ UNCHANGED << key_share, shared_key, address, refund, calls, accepted_key >>

\* A loop iteration of a running wait_for_deposit.
Poll(res) == PollBody(res)

\* The caller drops the suspended wait_for_deposit future at an await.
DropWait ==
  /\ pc = "waiting"
  /\ pc' = "idle"
  /\ wait_address' = None
  /\ last' = Outcome("wait_for_deposit", "dropped", TRUE, None)
  /\ UNCHANGED << key_share, shared_key, address, input, refund,
                  calls, accepted_key, funded_address >>

\* Scalar + Scalar, as NanoEngine::send combines the two halves of the key.
ScalarAdd(a, b) == (a + b) % Order
\* The private key NanoEngine::send signs with: the sum of its two key
\* arguments.
SigningKey(call) == ScalarAdd(call.args[1], call.args[2])

\* The call log once the call made last has returned r (a call that has
\* not returned has ret = None).
Returned(cs, r) == [cs EXCEPT ![Len(cs)].ret = Some(r)]

\* refund taking `&mut self`: the controller is usable again once the call
\* is over.
RefundBorrowing == pc' = "idle"
\* refund takes `mut self`: the controller is moved into the call and is
\* dropped with it, however the call ends.
RefundMove == pc' = "consumed"

\* The send with the deposit account, not the refund account, as its
\* destination.
RefundSendToDepositAccount(recovered) ==
  SendCall(recovered, Unwrap(key_share), Unwrap(input)[1],
           Account(Unwrap(shared_key)), Unwrap(input)[2], None)
\* The engine.send(..) call of refund, not yet returned: the decoded
\* recovered key, the unwrapped share, the input's hash, the refund
\* account, the input's amount.
RefundSend(recovered) ==
  SendCall(recovered, Unwrap(key_share), Unwrap(input)[1], refund,
           Unwrap(input)[2], None)

\* refund once a recovered key was handed over: decode it (`?`), unwrap
\* the share (`expect`), call send and suspend at its await.
RefundRecovered(res) ==
  IF IsNone(LittleEndianBytesToPrivateKey(Unwrap(res.key)))
    THEN /\ last' = Outcome("refund", "Err", TRUE, None)
         /\ calls' = Returned(calls, res)
         /\ RefundMove
    ELSE IF IsNone(key_share)
      THEN /\ last' = Outcome("refund", "panic", TRUE, None)
           /\ calls' = Returned(calls, res)
           /\ RefundMove
      ELSE /\ last' = Outcome("refund", "pending", TRUE, None)
           /\ calls' = Append(Returned(calls, res),
                              RefundSend(Unwrap(LittleEndianBytesToPrivateKey(Unwrap(res.key)))))
           /\ pc' = "sending"

\* The resolution with Ok(None) treated as a recovered zero key.
RefundSendingWithoutRecoveredKey(res) ==
  IF ~res.ok
    THEN /\ last' = Outcome("refund", "Err", TRUE, None)
         /\ calls' = Returned(calls, res)
         /\ RefundMove
    ELSE IF IsNone(res.key)
      THEN /\ last' = Outcome("refund", "pending", TRUE, None)
           /\ calls' = Append(Returned(calls, res), RefundSend(0))
           /\ pc' = "sending"
      ELSE RefundRecovered(res)
\* The resolution with its error swallowed: a failed resolution counts as
\* Ok(None).
RefundSwallowingResolutionError(res) ==
  IF ~res.ok \/ IsNone(res.key)
    THEN /\ last' = Outcome("refund", "Ok", TRUE, None)
         /\ calls' = Returned(calls, res)
         /\ RefundMove
    ELSE RefundRecovered(res)
\* refund resumed at the resolution's await (`?`): it returns unless the
\* verifier recovered a key.
RefundResolve(res) ==
  IF ~res.ok
    THEN /\ last' = Outcome("refund", "Err", TRUE, None)
         /\ calls' = Returned(calls, res)
         /\ RefundMove
    ELSE IF IsNone(res.key)
      THEN /\ last' = Outcome("refund", "Ok", TRUE, None)
           /\ calls' = Returned(calls, res)
           /\ RefundMove
      ELSE RefundRecovered(res)

\* The body with the resolution called, and awaited, before the input is
\* looked at.
RefundResolvingFirst ==
  IF IsNone(input)
    THEN /\ last' = Outcome("refund", "Ok", TRUE, None)
         /\ calls' = Append(calls, ResolveCall(Some([ok |-> TRUE, key |-> None])))
         /\ RefundMove
    ELSE /\ last' = Outcome("refund", "pending", TRUE, None)
         /\ calls' = Append(calls, ResolveCall(None))
         /\ pc' = "resolving"
\* refund's body up to its first await: it returns Ok at once unless an
\* input is held, else calls the verifier's resolution and suspends.
RefundBody ==
  IF IsNone(input)
    THEN /\ last' = Outcome("refund", "Ok", TRUE, None)
         /\ UNCHANGED calls
         /\ RefundMove
    ELSE /\ last' = Outcome("refund", "pending", TRUE, None)
         /\ calls' = Append(calls, ResolveCall(None))
         /\ pc' = "resolving"

\* refund (the controller's settle) is called: the controller is moved
\* into the future the call returns; the body does not run until the
\* future is polled.
Refund ==
  /\ pc = "idle"
  /\ pc' = "refund"
  /\ last' = Outcome("refund", "pending", TRUE, None)
  /\ UNCHANGED << key_share, shared_key, address, input, refund, wait_address,
                  calls, accepted_key, funded_address >>

\* The first poll of refund's future.
RefundStart ==
  /\ pc = "refund"
  /\ RefundBody
  /\ UNCHANGED << key_share, shared_key, address, input, refund, wait_address,
                  accepted_key, funded_address >>

\* The resolution returns to the suspended refund.
RefundResolved(res) ==
  /\ pc = "resolving"
  /\ RefundResolve(res)
  /\ UNCHANGED << key_share, shared_key, address, input, refund, wait_address,
                  accepted_key, funded_address >>

\* The send returns to the suspended refund (`?`), which returns.
RefundSent(send_ok) ==
  /\ pc = "sending"
  /\ last' = Outcome("refund", IF send_ok THEN "Ok" ELSE "Err", TRUE, None)
  /\ calls' = Returned(calls, send_ok)
  /\ RefundMove
  /\ UNCHANGED << key_share, shared_key, address, input, refund, wait_address,
                  accepted_key, funded_address >>

\* The caller drops refund's future before it has returned: before its
\* first poll, or suspended at one of its two awaits.  A call in flight
\* never returns to the controller.
DropRefund ==
  /\ pc \in { "refund", "resolving", "sending" }
  /\ last' = Outcome("refund", "dropped", TRUE, None)
  /\ RefundMove
  /\ UNCHANGED << key_share, shared_key, address, input, refund, wait_address,
                  calls, accepted_key, funded_address >>

\* The methods of the trait as every build has them.  The helpers compiled
\* into test builds only (#[cfg(test)]) are steps of TestNext, below.
Next ==
  \/ \E key \in Scalars : GenerateKeys(key)
  \/ \E valid \in BOOLEAN, host_key \in Points : VerifyKeys(valid, host_key)
  \/ GetAddress
  \/ WaitForDeposit
  \/ \E res \in PollResults : Poll(res)
  \/ DropWait
  \/ Refund
  \/ RefundStart
  \/ \E res \in ResolveResults : RefundResolved(res)
  \/ \E send_ok \in BOOLEAN : RefundSent(send_ok)
  \/ DropRefund

Spec == Init /\ [][Next]_vars

\* wait_for_deposit run by a caller that never drops it, against a ledger
\* engine that never fails: a loop iteration whose poll returns Ok.
PollOk == \E res \in PollResults : res.ok /\ Poll(res)
\* A loop iteration whose poll reports at least one receivable.
PollDeposit == \E res \in PollResults : res.ok /\ Len(res.inputs) > 0 /\ Poll(res)

LiveNext ==
  \/ \E key \in Scalars : GenerateKeys(key)
  \/ \E valid \in BOOLEAN, host_key \in Points : VerifyKeys(valid, host_key)
  \/ GetAddress
  \/ WaitForDeposit
  \/ PollOk

\* The controller up to its settlement (refund, which ends its life, is
\* left out).  The executor keeps running the suspended loop, and the
\* ledger engine eventually reports a receivable to it.
LiveSpec == Init /\ [][LiveNext]_vars /\ WF_vars(PollDeposit)

\* ------------------------------------------------------------ test builds
\* The addresses a test can ask get_if_funded about.
Addresses == { AddressOf(p) : p \in Points }

\* override_refund_with_random_address: the refund account becomes the
\* account of a fresh private key.
OverrideRefundWithRandomAddress(key) ==
  /\ pc = "idle"
  /\ refund' = Account(ToPublicKey(key))
  /\ last' = Outcome("override_refund_with_random_address", "Ok", TRUE, None)
  /\ UNCHANGED << key_share, shared_key, address, input, pc, wait_address,
                  calls, accepted_key, funded_address >>

\* send_from_node, up to its await: unwraps the address (`unwrap`) and
\* asks the engine to fund it from the node's wallet.  The call is not the
\* engine's send and is not logged.
SendFromNode ==
  /\ pc = "idle"
  /\ IF IsNone(address)
       THEN /\ last' = Outcome("send_from_node", "panic", TRUE, None)
            /\ UNCHANGED pc
       ELSE /\ last' = Outcome("send_from_node", "pending", TRUE, None)
            /\ pc' = "send_from_node"
  /\ UNCHANGED << key_share, shared_key, address, input, refund, wait_address,
                  calls, accepted_key, funded_address >>

\* The engine returns to the suspended send_from_node (`expect`).
SendFromNodeReturned(node_ok) ==
  /\ pc = "send_from_node"
  /\ pc' = "idle"
  /\ last' = Outcome("send_from_node", IF node_ok THEN "Ok" ELSE "panic", TRUE, None)
  /\ UNCHANGED << key_share, shared_key, address, input, refund, wait_address,
                  calls, accepted_key, funded_address >>

\* The caller drops the suspended send_from_node future.
DropSendFromNode ==
  /\ pc = "send_from_node"
  /\ pc' = "idle"
  /\ last' = Outcome("send_from_node", "dropped", TRUE, None)
  /\ UNCHANGED << key_share, shared_key, address, input, refund, wait_address,
                  calls, accepted_key, funded_address >>

\* advance_consensus: Ok(()), nothing else.
AdvanceConsensus ==
  /\ pc = "idle"
  /\ last' = Outcome("advance_consensus", "Ok", TRUE, None)
  /\ UNCHANGED << key_share, shared_key, address, input, refund, pc, wait_address,
                  calls, accepted_key, funded_address >>

\* get_refund_address: the refund account as a string.
GetRefundAddress ==
  /\ pc = "idle"
  /\ last' = Outcome("get_refund_address", "Ok", TRUE, Some(AccountToString(refund)))
  /\ UNCHANGED << key_share, shared_key, address, input, refund, pc, wait_address,
                  calls, accepted_key, funded_address >>

\* get_if_funded is called with an address of the caller's choice: it
\* takes `mut self`, so the controller is moved into the future.
GetIfFunded(a) ==
  /\ pc = "idle"
  /\ pc' = "get_if_funded"
  /\ wait_address' = Some(a)
  /\ last' = Outcome("get_if_funded", "pending", TRUE, None)
  /\ UNCHANGED << key_share, shared_key, address, input, refund,
                  calls, accepted_key, funded_address >>

\* The first poll of get_if_funded's future: it polls the engine for the
\* given address and suspends.
GetIfFundedStart ==
  /\ pc = "get_if_funded"
  /\ pc' = "checking"
  /\ UNCHANGED << key_share, shared_key, address, input, refund, wait_address,
                  last, calls, accepted_key, funded_address >>

\* The poll returns to the suspended get_if_funded (`unwrap`), which
\* returns whether the list is non-empty; no field is assigned and the
\* controller is dropped.
GetIfFundedReturned(res) ==
  /\ pc = "checking"
  /\ pc' = "consumed"
  /\ wait_address' = None
  /\ last' = IF res.ok
               THEN Outcome("get_if_funded", "Ok", TRUE, Some(Len(res.inputs) > 0))
               ELSE Outcome("get_if_funded", "panic", TRUE, None)
  /\ UNCHANGED << key_share, shared_key, address, input, refund,
                  calls, accepted_key, funded_address >>

\* The caller drops get_if_funded's future, unpolled or at its await.
DropGetIfFunded ==
  /\ pc \in { "get_if_funded", "checking" }
  /\ pc' = "consumed"
  /\ wait_address' = None
  /\ last' = Outcome("get_if_funded", "dropped", TRUE, None)
  /\ UNCHANGED << key_share, shared_key, address, input, refund,
                  calls, accepted_key, funded_address >>

\* The helpers the trait has in test builds only (#[cfg(test)]).
TestHelpers ==
  \/ \E key \in Scalars : OverrideRefundWithRandomAddress(key)
  \/ SendFromNode
  \/ \E node_ok \in BOOLEAN : SendFromNodeReturned(node_ok)
  \/ DropSendFromNode
  \/ AdvanceConsensus
  \/ GetRefundAddress
  \/ \E a \in Addresses : GetIfFunded(a)
  \/ GetIfFundedStart
  \/ \E res \in PollResults : GetIfFundedReturned(res)
  \/ DropGetIfFunded

\* The methods of the trait in a test build.
TestNext == Next \/ TestHelpers

\* The controller in a test build; Spec is the controller in every other
\* build, where the helpers do not exist.
TestSpec == Init /\ [][TestNext]_vars

\* ---------------------------------------------------------------- claims
\* The send calls, and the resolution calls, made so far.
SendCalls == SelectSeq(calls, LAMBDA c : c.fn = "send")
ResolveCalls == SelectSeq(calls, LAMBDA c : c.fn = "claim_refund_or_recover_key")
\* The controller's fields and the calls made to the ledger and verifier.
effects == << key_share, shared_key, address, input, refund, calls >>

\* C1: every verify_keys call made while no key share is stored, whether
\* the verifier accepts the bundle or not, panics and leaves shared_key
\* unset.
C1_VerifyBeforeGenerateIsFatal ==
  [][ (last'.op = "verify_keys" /\ IsNone(key_share))
        => (last'.result = "panic" /\ IsNone(shared_key')) ]_vars

\* C2: a refund called while no input is held, once its future has run
\* (it is neither still pending nor dropped unpolled), has ended in a
\* panic; it has not returned Ok, and nothing was sent.
C2_SettleWithoutDepositFailsFast ==
  [][ (/\ last'.op = "refund" /\ IsNone(input)
       /\ last'.result \notin { "pending", "dropped" })
        => (last'.result = "panic" /\ SendCalls' = << >>) ]_vars

\* C3: a verify_keys whose proof the verifier rejects returns Err and
\* changes nothing; if shared_key was unset, a get_address that follows
\* panics and derives no address.
C3_ProofRejection ==
  [][ /\ (last'.op = "verify_keys" /\ ~last'.valid)
          => (last'.result = "Err" /\ UNCHANGED effects /\ UNCHANGED pc)
      /\ (/\ last.op = "verify_keys" /\ last.result = "Err"
          /\ IsNone(shared_key) /\ last'.op = "get_address")
          => (/\ last'.result = "panic" /\ IsNone(last'.ret)
              /\ IsNone(shared_key') /\ address' = address) ]_vars

\* C3 witness: with a share stored, a bundle was rejected and shared_key is
\* still unset.
C3_Witness ==
  /\ last.op = "verify_keys" /\ last.result = "Err" /\ ~last.valid
  /\ IsSome(key_share) /\ IsNone(shared_key)

\* C4: over any sequence of operations at most one send is submitted to
\* the ledger engine, whether or not it has returned.
C4_AtMostOneSpend == Len(SendCalls) <= 1

\* C4 witness: a refund on the adversarial path has submitted its send.
C4_Witness ==
  /\ pc = "consumed" /\ last.op = "refund" /\ last.result = "Ok"
  /\ Len(SendCalls) = 1 /\ SendCalls[1].ret = Some(TRUE)

\* C5: with an input held and a resolution that returned Ok(None), refund
\* has sent nothing and has returned Ok.
C5_CooperativeNoOp ==
  (/\ last.op = "refund" /\ IsSome(input)
   /\ Len(ResolveCalls) = 1
   /\ ResolveCalls[1].ret = Some([ok |-> TRUE, key |-> None]))
    => (SendCalls = << >> /\ last.result = "Ok" /\ pc = "consumed")

\* C5 witness: refund ran the cooperative path with an input held.
C5_Witness ==
  /\ last.op = "refund" /\ IsSome(input)
  /\ calls = << ResolveCall(Some([ok |-> TRUE, key |-> None])) >>

\* The recovered scalar of a resolution that has returned a decodable key.
RecoveredScalar(call) == LittleEndianBytesToPrivateKey(Unwrap(Unwrap(call.ret).key))
Recovered(call) ==
  /\ IsSome(call.ret)
  /\ Unwrap(call.ret).ok /\ IsSome(Unwrap(call.ret).key)
  /\ IsSome(RecoveredScalar(call))

\* C6: with an input (hash, amount) held and a resolution that recovered
\* the scalar r, refund has made exactly two calls, the resolution and
\* then one send, and the send's key arguments are r and the stored
\* share (signing key: their sum), its input the held hash, its
\* destination the refund account, its amount the held amount; refund
\* returns only once the send has, and returns what the send did.
C6_AdversarialSendArguments ==
  (/\ last.op = "refund" /\ IsSome(input)
   /\ Len(ResolveCalls) = 1 /\ Recovered(ResolveCalls[1]))
    => /\ Len(calls) = 2
       /\ calls[1].fn = "claim_refund_or_recover_key"
       /\ calls[2].fn = "send"
       /\ calls[2].args = << Unwrap(RecoveredScalar(calls[1])), Unwrap(key_share),
                             Unwrap(input)[1], refund, Unwrap(input)[2] >>
       /\ SigningKey(calls[2])
            = ScalarAdd(Unwrap(key_share), Unwrap(RecoveredScalar(calls[1])))
       /\ last.result \in { "pending", "dropped", "Ok", "Err" }
       /\ (last.result = "pending") <=> (pc = "sending")
       /\ (last.result = "Ok") <=> (calls[2].ret = Some(TRUE))
       /\ (last.result = "Err") <=> (calls[2].ret = Some(FALSE))

\* C6 witness: refund sent on the adversarial path, with a nonzero
\* recovered scalar and the largest amount, and returned Ok.
C6_Witness ==
  /\ last.op = "refund" /\ last.result = "Ok" /\ IsSome(input) /\ Len(calls) = 2
  /\ Recovered(calls[1]) /\ Unwrap(RecoveredScalar(calls[1])) > 0
  /\ calls[2].fn = "send" /\ calls[2].args[5] = MaxAmount

\* C7: no step of a refund called while no input is held calls the
\* resolution or the send or changes a field, and the first poll of its
\* future returns Ok.
C7_SettleWithoutDepositIsNoOp ==
  [][ (last'.op = "refund" /\ IsNone(input))
        => (/\ UNCHANGED effects
            /\ last'.result \in { "pending", "Ok", "dropped" }
            /\ (pc = "refund" /\ last'.result # "dropped")
                 => (last'.result = "Ok" /\ pc' = "consumed")) ]_vars

\* C7 witness: refund returned Ok on a controller that never generated
\* keys, and no verifier or send call was ever made.
C7_Witness ==
  /\ last.op = "refund" /\ last.result = "Ok" /\ pc = "consumed" /\ IsNone(input)
  /\ IsNone(key_share) /\ calls = << >>

\* C8: the stored key share changes only from unset to set.
C8_SecretShareSetOnce ==
  [][ IsSome(key_share) => key_share' = key_share ]_vars

\* C9: shared_key changes only from unset to set, and only by a
\* verify_keys whose proof was accepted.
C9_CombinedKeySetOnce ==
  [][ (shared_key' # shared_key)
        => (/\ IsNone(shared_key)
            /\ last'.op = "verify_keys" /\ last'.valid /\ last'.result = "Ok") ]_vars

\* C10: every successful get_address returns what the one before it
\* returned (the stored address, which only get_address assigns), and
\* changes no state but the stored address, which it sets to what it
\* returns.
C10_GetAddressDeterministic ==
  [][ (last'.op = "get_address" /\ last'.result = "Ok")
        => (/\ address' = last'.ret
            /\ IsSome(address) => last'.ret = address
            /\ UNCHANGED << key_share, shared_key, input, refund, pc, calls >>) ]_vars

\* What get_confirmed_pending returns when it fails, and when it finds
\* nothing.
PollFailed == [ok |-> FALSE, inputs |-> << >>]
PollEmpty == [ok |-> TRUE, inputs |-> << >>]

\* C11: once an input is held no step changes or clears it, no
\* wait_for_deposit loop is running, and a wait_for_deposit call returns Ok
\* at once, without entering the polling loop and without changing a field.
C11_DepositNeverOverwritten ==
  [][ IsSome(input)
        => (/\ input' = input
            /\ pc' # "waiting"
            /\ (last'.op = "wait_for_deposit")
                 => (last'.result = "Ok" /\ pc' = "idle" /\ UNCHANGED effects)) ]_vars

\* C11 witness: wait_for_deposit returned Ok on a controller whose address
\* was derived again, from another shared key, after its input was found.
C11_Witness ==
  /\ last.op = "wait_for_deposit" /\ last.result = "Ok" /\ IsSome(input)
  /\ address = Some(AddressOf(Unwrap(shared_key)))
  /\ funded_address # address

\* C12: a loop iteration whose poll returns Err ends wait_for_deposit with
\* Err, with no further poll, the input unset and every field unchanged,
\* so that wait_for_deposit can be called again; an iteration whose poll
\* returns an empty list leaves the loop running.
C12_PollErrorPropagates ==
  [][ /\ Poll(PollFailed)
          => (/\ last'.op = "wait_for_deposit" /\ last'.result = "Err"
              /\ pc' = "idle" /\ IsNone(input') /\ IsSome(address')
              /\ UNCHANGED effects)
      /\ Poll(PollEmpty)
          => (/\ pc' = "waiting" /\ last'.result = "polling"
              /\ UNCHANGED effects) ]_vars

\* C12 witness: wait_for_deposit returned Err; the address is known and no
\* input is held.
C12_Witness ==
  /\ last.op = "wait_for_deposit" /\ last.result = "Err"
  /\ pc = "idle" /\ IsNone(input) /\ IsSome(address)

\* C13: after a refund that returned Err the controller can still be used,
\* and still holds its input and its key share.
C13_FailedSettleRetryable ==
  (last.op = "refund" /\ last.result = "Err")
    => (pc = "idle" /\ IsSome(input) /\ IsSome(key_share))

\* C14: get_address called with no shared key, and wait_for_deposit called
\* with no address, panic, change no field and do not enter the polling
\* loop.
C14_OutOfOrderIsFatal ==
  [][ /\ (last'.op = "get_address" /\ IsNone(shared_key))
          => (last'.result = "panic" /\ UNCHANGED effects /\ pc' = "idle")
      /\ (last'.op = "wait_for_deposit" /\ pc = "idle" /\ IsNone(address))
          => (last'.result = "panic" /\ UNCHANGED effects /\ pc' = "idle") ]_vars

\* C14 witness: wait_for_deposit panicked on a controller whose keys are
\* verified but whose address was never derived.
C14_Witness ==
  /\ last.op = "wait_for_deposit" /\ last.result = "panic"
  /\ IsSome(shared_key) /\ IsNone(address)

\* C15: whenever an input is held, the address it was found at is the
\* address of to_public_key(stored share) + accepted remote key; so for
\* every scalar r of that remote key, the stored share plus r is the
\* private key of that address.
C15_ReconstructedKeyControlsDeposit ==
  IsSome(input)
    => (/\ funded_address
             = Some(AddressOf(PointAdd(ToPublicKey(Unwrap(key_share)),
                                       Unwrap(accepted_key))))
        /\ \A r \in Scalars :
             ToPublicKey(r) = Unwrap(accepted_key)
               => funded_address
                    = Some(AddressOf(ToPublicKey(ScalarAdd(Unwrap(key_share), r)))))

\* C16: a stored address is the address of the stored shared key, and so
\* is the address a running wait_for_deposit polls.
C16_AddressOfCurrentSharedKey ==
  /\ IsSome(address)
       => (IsSome(shared_key) /\ address = Some(AddressOf(Unwrap(shared_key))))
  /\ pc = "waiting"
       => (IsSome(shared_key) /\ wait_address = Some(AddressOf(Unwrap(shared_key))))

\* C17: an input is held only with an address, an address only with a
\* shared key, a shared key only with a key share; and refund never panics.
C17_FieldDependency ==
  /\ IsSome(input) => IsSome(address)
  /\ IsSome(address) => IsSome(shared_key)
  /\ IsSome(shared_key) => IsSome(key_share)
  /\ ~(last.op = "refund" /\ last.result = "panic")

\* C17 witness: refund passed the unwrap of the key share and called send,
\* which failed.
C17_Witness ==
  /\ last.op = "refund" /\ last.result = "Err" /\ IsSome(input)
  /\ Len(SendCalls) = 1 /\ SendCalls[1].ret = Some(FALSE)

\* C18: a loop iteration whose poll reports a non-empty list stores the
\* first element of the list as the input and ends wait_for_deposit with Ok
\* and no further poll; wait_for_deposit never returns Ok with no input
\* held.
C18_FirstReceivableIsDeposit ==
  [][ /\ (pc = "waiting")
           => \A res \in PollResults :
                (res.ok /\ Len(res.inputs) > 0 /\ Poll(res))
                  => (/\ input' = Some(res.inputs[1])
                      /\ last'.op = "wait_for_deposit" /\ last'.result = "Ok"
                      /\ pc' = "idle")
      /\ (last'.op = "wait_for_deposit" /\ last'.result = "Ok")
           => IsSome(input') ]_vars

\* C18 witness: wait_for_deposit returned Ok holding an input found at the
\* stored address.
C18_Witness ==
  /\ last.op = "wait_for_deposit" /\ last.result = "Ok"
  /\ IsSome(input) /\ funded_address = address

\* C19: a running wait_for_deposit eventually returns Ok with an input
\* held, when the ledger engine never fails and eventually reports a
\* receivable; and an iteration whose poll returns an empty list leaves it
\* running, with no input.
C19_WaitEventuallyReturns ==
  /\ (pc = "waiting")
       ~> (/\ pc = "idle" /\ IsSome(input)
           /\ last.op = "wait_for_deposit" /\ last.result = "Ok")
  /\ [][ Poll(PollEmpty) => (pc' = "waiting" /\ IsNone(input')) ]_vars

\* C19 witness: a wait_for_deposit that ran its loop has returned Ok with
\* the largest receivable as its input.
C19_Witness ==
  /\ pc = "idle" /\ last.op = "wait_for_deposit" /\ last.result = "Ok"
  /\ input = Some(<< MaxHash, MaxAmount >>) /\ IsSome(funded_address)

\* C20: with an input held and a resolution that returned Err, refund has
\* returned Err and has sent nothing.
C20_NoPartialSettlement ==
  (/\ last.op = "refund" /\ IsSome(input)
   /\ Len(ResolveCalls) = 1
   /\ ResolveCalls[1].ret = Some([ok |-> FALSE, key |-> None]))
    => (last.result = "Err" /\ SendCalls = << >> /\ pc = "consumed")

\* C20 witness: refund ran with an input held and the resolution failed.
C20_Witness ==
  /\ last.op = "refund" /\ IsSome(input)
  /\ calls = << ResolveCall(Some([ok |-> FALSE, key |-> None])) >>

====
